---- MODULE Spec2Model ----
(***************************************************************************)
(* Model of the sequential timeline compositor of SceneSynth,              *)
(* src/utils/videoGenerator.ts: one invocation of generateSequentialVideo  *)
(* from its call to the settling of the promise it returns.                *)
(*                                                                         *)
(* Time is counted in tenths of a second on one clock (`now`) that stands  *)
(* for both performance.now() and audioContext.currentTime.  Gain values   *)
(* are counted in hundredths.                                              *)
(***************************************************************************)
EXTENDS Integers, Sequences, FiniteSets, TLC

\* ---- bounds of the model ------------------------------------------------
MaxScenes == 2      \* longest scenes array
MaxDur == 1         \* longest decoded narration, in tenths of a second
MaxLoadTime == 2    \* longest time the asset loads may take
MaxFrameStep == 1   \* longest delay between two animation frames
MaxBytes == 4       \* longest body fetched by loadAudioUniversal, in bytes
MaxAudio == 13      \* longest narration of a segment player followed on its own
MaxWords == 3       \* most words of a subtitle text (text.split(' '))
MaxWordLen == 2     \* most characters of a word
MaxWidthSteps == 3  \* widest word, in steps of WIDTH_STEP
MaxProgress == 5    \* largest progress handed to drawSubtitles, in quarters
MaxPairFrames == 2  \* most frames each of two interleaved invocations draws

\* ---- program constants --------------------------------------------------
BREATH_DURATION == 8    \* 0.8 s
TRANS_DURATION == 12    \* 1.2 s
SUBTITLE_HOLD == 2      \* elapsed < audioDur + 0.2
CANVAS_WIDTH == 720     \* const width = 720, in pixels
LINE_MARGIN == 100      \* cw - 100
SPACE_WIDTH == 10       \* measured width of " " in bold 38px, in pixels
TITLE_SPACE == 16       \* measured width of " " in 800 60px, in pixels
WIDTH_STEP == 210       \* measured word widths are multiples of this
OUTRO_EXTRA == 15       \* voiceDuration + 1.5
BGM_LEVEL == 8          \* 0.08
RAMP_UP == 20           \* currentTime + 2.0
FADE_OUT == 25          \* fadeStartTime + 2.5
PCM_RATE == 24000       \* createBuffer(1, n, 24000)
PCM_SCALE == 32768      \* samples[i] / 32768.0

VARIABLES
    scenes,            \* argument: the scenes array
    intro,             \* argument: the intro object (present = FALSE: undefined)
    outro,             \* argument: the outro object
    onProgress,        \* argument: TRUE iff a progress callback was passed
    pc,                \* the await (or decision point) the invocation is at
    error,             \* the error thrown to the caller, "none" if none
    artifact,          \* TRUE once the object URL of the blob was created
    audioContext,      \* "none", "running", "closed"
    stream,            \* TRUE once canvas.captureStream() returned
    recorder,          \* "none", "inactive", "recording", "stopped"
    bgm,               \* ambient bed: "none", "started", "stopped"
    gainValue,         \* bgmNodes.gain.gain.value as last assigned
    gainEvents,        \* automation events scheduled on bgmNodes.gain.gain
    resLog,            \* calls made on recorder, ambient bed and context
    sceneLoad,         \* per valid scene: state of its load in Promise.all
    introImg,          \* TRUE iff introImg is non-null
    introAudioBuffer,  \* TRUE iff introAudioBuffer is non-null
    outroImg,          \* TRUE iff outroImg is non-null
    outroBuffer,       \* TRUE iff outroBuffer is non-null
    i,                 \* loop index of the scene loop
    segLog,            \* every segment player started so far, in order
    voiceEnd,          \* when the narration started last stops sounding
    playedDur,         \* sum of the durations of the players that resolved
    frameDrawn,        \* TRUE once any segment drew a frame on the canvas
    progressLog,       \* values passed to onProgress, as <<num, den>>
    closedCtxUse,      \* TRUE once a load used the context after close()
    now,               \* the clock
    recStart,          \* time of recorder.start(), -1 before
    recStop,           \* time of recorder.stop(), -1 before
    chunks,            \* the chunk list: the sizes of the blobs pushed
    delivered,         \* the sizes of the data of every dataavailable event
    aPc,               \* loadAudioUniversal: the await the call is at
    ab,                \* loadAudioUniversal: the fetched bytes
    copy,              \* the bytes of ab.slice(0), << >> once detached
    rejected,          \* TRUE once decodeAudioData rejected
    result,            \* what loadAudioUniversal returned or threw
    sPc,               \* a segment player: "idle", "drawing", "resolved"
    sKind,             \* which player: "intro", "scene", "outro"
    transition,        \* the transition argument of playSceneSegment
    sAudioDur,         \* audioBuffer.duration of the player's narration
    sClock,            \* performance.now() - startTime of the player
    snapshot,          \* playSceneSegment: the frame held by snapshotCanvas
    canvas,            \* the frame on the canvas: who drew it, at what elapsed
    frame,             \* the drawing operations of the last draw()
    spoken,            \* progress passed to drawSubtitles by the last draw()
    sStarts,           \* calls of source.start() by the player
    sResolves,         \* calls of resolve() by the player
    text,              \* drawSubtitles: the words of text, each with its
                       \*   number of characters and its measured width
    progress,          \* drawSubtitles: the progress argument, in quarters
    subs,              \* drawSubtitles: what was drawn for each line
    title,             \* playIntroSegment: the words of the title, each with
                       \*   its measured width
    titleLines,        \* playIntroSegment: the lines the title is laid out on
    heap,              \* two invocations: every object created, with the
                       \*   invocation that created it
    inv,               \* two invocations: the locals of each
    ops                \* two invocations: the calls made, with their target

vars == << scenes, intro, outro, onProgress, pc, error, artifact, audioContext,
           stream, recorder, bgm, gainValue, gainEvents, resLog, sceneLoad, introImg,
           introAudioBuffer, outroImg, outroBuffer, i, segLog, voiceEnd, playedDur,
           frameDrawn, progressLog, closedCtxUse, now, recStart, recStop,
           chunks, delivered,
           aPc, ab, copy, rejected, result,
           sPc, sKind, transition, sAudioDur, sClock, snapshot, canvas, frame,
           spoken, sStarts, sResolves, text, progress, subs, title, titleLines,
           heap, inv, ops >>

inputVars == << scenes, intro, outro, onProgress >>
resourceVars == << audioContext, stream, recorder, bgm, gainValue, gainEvents,
                   resLog, recStart, recStop >>
assetVars == << sceneLoad, introImg, introAudioBuffer, outroImg, outroBuffer >>
playVars == << i, segLog, voiceEnd, playedDur, frameDrawn, progressLog >>
audioVars == << aPc, ab, copy, rejected, result >>
chunkVars == << chunks, delivered >>
renderVars == << inputVars, pc, error, artifact, resourceVars, assetVars,
                 playVars, closedCtxUse, now, chunkVars >>
segVars == << sPc, sKind, transition, sAudioDur, sClock, snapshot, canvas,
              frame, spoken, sStarts, sResolves >>
\* what the actions of one part of the model leave alone
subVars == << text, progress, subs >>
titleVars == << title, titleLines >>
pairVars == << heap, inv, ops >>
besideRender == << audioVars, segVars, subVars, titleVars, pairVars, chunkVars >>
besideChunks == << audioVars, segVars, subVars, titleVars, pairVars >>
besideAudio == << renderVars, segVars, subVars, titleVars, pairVars >>
besideSeg == << renderVars, audioVars, subVars, titleVars, pairVars >>
besideSub == << renderVars, audioVars, segVars, titleVars, pairVars >>
besideTitle == << renderVars, audioVars, segVars, subVars, pairVars >>
besidePair == << renderVars, audioVars, segVars, subVars, titleVars >>

\* ---- inputs -------------------------------------------------------------
SceneRec == [id : 1..MaxScenes, imageUrl : BOOLEAN, audioUrl : BOOLEAN]

SceneArrays ==
    UNION { { s \in [1..n -> SceneRec] : \A k \in 1..n : s[k].id = k } : n \in 0..MaxScenes }

IntroArgs ==
    { [present |-> FALSE, imageUrl |-> FALSE, audioUrl |-> FALSE] } \cup
    [present : {TRUE}, imageUrl : BOOLEAN, audioUrl : BOOLEAN]

OutroArgs ==
    { [present |-> FALSE, imageUrl |-> FALSE, audioUrl |-> FALSE] } \cup
    [present : {TRUE}, imageUrl : BOOLEAN, audioUrl : BOOLEAN]

\* ---- line 38-41: what is playable ---------------------------------------
hasIntro == intro.present /\ intro.imageUrl /\ intro.audioUrl

\* mutant: the filter forgets the audio source
validScenes_ImageOnly == SelectSeq(scenes, LAMBDA s : s.imageUrl)

validScenes == SelectSeq(scenes, LAMBDA s : s.imageUrl /\ s.audioUrl)

\* mutant: the check looks at the outro object, not at its audio source
IsEmptyTimeline_OutroObject ==
    /\ Len(validScenes) = 0
    /\ ~hasIntro
    /\ ~outro.present

IsEmptyTimeline ==
    /\ Len(validScenes) = 0
    /\ ~hasIntro
    /\ ~(outro.present /\ outro.audioUrl)

NoBuffer == [kind |-> "none", channels |-> 0, sampleRate |-> 0, data |-> << >>]

\* the state of an invocation at its call
RenderStart ==
    /\ pc = "start"
    /\ error = "none"
    /\ artifact = FALSE
    /\ audioContext = "none"
    /\ stream = FALSE
    /\ recorder = "none"
    /\ bgm = "none"
    /\ gainValue = 0
    /\ gainEvents = << >>
    /\ resLog = << >>
    /\ sceneLoad = << >>
    /\ introImg = FALSE
    /\ introAudioBuffer = FALSE
    /\ outroImg = FALSE
    /\ outroBuffer = FALSE
    /\ i = 0
    /\ segLog = << >>
    /\ voiceEnd = 0
    /\ playedDur = 0
    /\ frameDrawn = FALSE
    /\ progressLog = << >>
    /\ closedCtxUse = FALSE
    /\ now = 0
    /\ recStart = -1
    /\ recStop = -1
    /\ chunks = << >>
    /\ delivered = << >>

\* no call of loadAudioUniversal is followed on its own
AudioIdle ==
    /\ aPc = "idle"
    /\ ab = << >>
    /\ copy = << >>
    /\ rejected = FALSE
    /\ result = NoBuffer

\* a canvas nothing was drawn on
Blank == [by |-> "nobody", at |-> 0]

\* no segment player is followed on its own
SegIdle ==
    /\ sPc = "off"
    /\ sKind = "scene"
    /\ transition = "none"
    /\ sAudioDur = 0
    /\ sClock = 0
    /\ snapshot = Blank
    /\ canvas = Blank
    /\ frame = << >>
    /\ spoken = << 0, 1 >>
    /\ sStarts = 0
    /\ sResolves = 0

\* drawSubtitles is not followed on its own
SubIdle ==
    /\ text = << >>
    /\ progress = 0
    /\ subs = << >>

\* the layout of a title is not followed on its own
TitleIdle ==
    /\ title = << >>
    /\ titleLines = << >>

\* the locals of an invocation before line 45: nothing is created yet
NoLocals ==
    [pc |-> "call", canvas |-> 0, audioContext |-> 0, recorder |-> 0,
     chunks |-> 0, bgmNodes |-> 0, frames |-> 0]

\* no pair of invocations is followed
PairIdle ==
    /\ heap = << >>
    /\ inv = << >>
    /\ ops = {}

\* generateSequentialVideo is not running
NoRender ==
    /\ scenes = << >>
    /\ intro = [present |-> FALSE, imageUrl |-> FALSE, audioUrl |-> FALSE]
    /\ outro = [present |-> FALSE, imageUrl |-> FALSE, audioUrl |-> FALSE]
    /\ onProgress = FALSE
    /\ RenderStart

Init ==
    /\ scenes \in SceneArrays
    /\ intro \in IntroArgs
    /\ outro \in OutroArgs
    /\ onProgress \in BOOLEAN
    /\ RenderStart
    /\ AudioIdle
    /\ SegIdle
    /\ SubIdle
    /\ TitleIdle
    /\ PairIdle

\* ---- line 38-43: the empty-timeline check, then await document.fonts.ready
CheckTimeline ==
    /\ pc = "start"
    /\ IF IsEmptyTimeline
         THEN pc' = "failed" /\ error' = "EmptyTimelineError"
         ELSE pc' = "fonts" /\ error' = error
    /\ UNCHANGED << inputVars, besideRender, artifact, resourceVars, assetVars, playVars,
                    closedCtxUse, now >>

\* ---- line 121-125: the catch block of generateSequentialVideo -----------
Call(op) == [op |-> op, t |-> now]

Catch(err) ==
    /\ recorder' = "stopped"
    /\ recStop' = now
    /\ audioContext' = "closed"
    /\ resLog' = resLog \o << Call("recorder.stop"), Call("audioContext.close") >>
    /\ pc' = "failed"
    /\ error' = err
    /\ UNCHANGED << stream, bgm, gainValue, recStart >>

\* ---- line 45-77: canvas, audio context, capture stream, recorder, ambient
\* bed, and the start of every scene's load (the map callbacks run up to
\* their first await)
SetupResources ==
    /\ pc = "fonts"
    /\ audioContext' = "running"
    /\ stream' = TRUE
    /\ recorder' = "recording"
    /\ recStart' = now
    /\ bgm' = "started"
    /\ resLog' = << Call("recorder.start"), Call("bgm.create"), Call("bgm.start") >>
    /\ gainValue' = 0
    /\ gainEvents' = << [op |-> "set", v |-> 0, t |-> now],
                        [op |-> "ramp", v |-> BGM_LEVEL, t |-> now + RAMP_UP] >>
    /\ sceneLoad' = [k \in 1..Len(validScenes) |-> "img"]
    /\ pc' = "loadScenes"
    /\ UNCHANGED << inputVars, besideRender, error, artifact, introImg, introAudioBuffer,
                    outroImg, outroBuffer, playVars, closedCtxUse, now, recStop >>

\* ---- line 51, 57, 60, 67: a step of the set-up throws; nothing of
\* line 45-74 is inside the try block
SetupThrows ==
    /\ pc = "fonts"
    /\ \E at \in {"getContext", "captureStream", "MediaRecorder", "start"} :
         /\ audioContext' = IF at = "getContext" THEN "none" ELSE "running"
         /\ stream' = (at \in {"MediaRecorder", "start"})
         /\ recorder' = IF at = "start" THEN "inactive" ELSE "none"
         /\ error' = IF at = "getContext" THEN "CanvasError" ELSE "CaptureError"
    /\ pc' = "failed"
    /\ UNCHANGED << inputVars, besideRender, artifact, bgm, gainValue, gainEvents, resLog,
                    recStart, recStop, assetVars, playVars, closedCtxUse, now >>

\* ---- time passes while loads are in flight --------------------------------
Loading ==
    \/ pc \in {"introImg", "introAud", "outroAud", "outroImg"}
    \/ pc = "loadScenes" /\ \E k \in DOMAIN sceneLoad : sceneLoad[k] \in {"img", "aud"}

LoadWait ==
    /\ Loading
    /\ now - recStart < MaxLoadTime
    /\ now' = now + 1
    /\ UNCHANGED << inputVars, besideRender, pc, error, artifact, resourceVars, assetVars,
                    playVars, closedCtxUse >>

\* ---- line 77-81: the loads of the scenes, run in parallel by Promise.all --
\* A load that is in flight when Promise.all rejects keeps running.
RejectAll(err) ==
    /\ IF pc = "loadScenes"
         THEN Catch(err)
         ELSE UNCHANGED << pc, error, audioContext, stream, recorder, bgm,
                           gainValue, resLog, recStart, recStop >>
    /\ UNCHANGED gainEvents

SceneImageLoaded(k) ==
    /\ sceneLoad[k] = "img"
    /\ sceneLoad' = [sceneLoad EXCEPT ![k] = "aud"]
    /\ UNCHANGED << inputVars, besideRender, pc, error, artifact, resourceVars, introImg,
                    introAudioBuffer, outroImg, outroBuffer, playVars,
                    closedCtxUse, now >>

SceneImageError(k) ==
    /\ sceneLoad[k] = "img"
    /\ sceneLoad' = [sceneLoad EXCEPT ![k] = "failed"]
    /\ RejectAll("AssetLoadError")
    /\ UNCHANGED << inputVars, besideRender, artifact, introImg, introAudioBuffer, outroImg,
                    outroBuffer, playVars, closedCtxUse, now >>

SceneAudioLoaded(k) ==
    /\ sceneLoad[k] = "aud"
    /\ sceneLoad' = [sceneLoad EXCEPT ![k] = "done"]
    /\ closedCtxUse' = (closedCtxUse \/ audioContext = "closed")
    /\ UNCHANGED << inputVars, besideRender, pc, error, artifact, resourceVars, introImg,
                    introAudioBuffer, outroImg, outroBuffer, playVars, now >>

SceneAudioError(k) ==
    /\ sceneLoad[k] = "aud"
    /\ sceneLoad' = [sceneLoad EXCEPT ![k] = "failed"]
    /\ RejectAll("DecodeError")
    /\ UNCHANGED << inputVars, besideRender, artifact, introImg, introAudioBuffer, outroImg,
                    outroBuffer, playVars, closedCtxUse, now >>

\* ---- line 83-95: the loads of the intro and of the outro ------------------
\* mutant: the outro's loads are left out
AfterIntroLoad_NoOutroLoad == "playIntro"

AfterIntroLoad == IF outro.present THEN "outroAud" ELSE "playIntro"

\* mutant: an intro with an image alone is loaded too
ScenesLoaded_ImageOnlyIntro ==
    /\ pc = "loadScenes"
    /\ \A k \in DOMAIN sceneLoad : sceneLoad[k] = "done"
    /\ pc' = IF intro.present /\ intro.imageUrl
               THEN "introImg" ELSE AfterIntroLoad
    /\ UNCHANGED << inputVars, besideRender, error, artifact, resourceVars, assetVars,
                    playVars, closedCtxUse, now >>

ScenesLoaded ==
    /\ pc = "loadScenes"
    /\ \A k \in DOMAIN sceneLoad : sceneLoad[k] = "done"
    /\ pc' = IF intro.present /\ intro.imageUrl /\ intro.audioUrl
               THEN "introImg" ELSE AfterIntroLoad
    /\ UNCHANGED << inputVars, besideRender, error, artifact, resourceVars, assetVars,
                    playVars, closedCtxUse, now >>

IntroImageLoaded ==
    /\ pc = "introImg"
    /\ introImg' = TRUE
    /\ pc' = "introAud"
    /\ UNCHANGED << inputVars, besideRender, error, artifact, resourceVars, sceneLoad,
                    introAudioBuffer, outroImg, outroBuffer, playVars,
                    closedCtxUse, now >>

IntroAudioLoaded ==
    /\ pc = "introAud"
    /\ introAudioBuffer' = TRUE
    /\ pc' = AfterIntroLoad
    /\ UNCHANGED << inputVars, besideRender, error, artifact, resourceVars, sceneLoad,
                    introImg, outroImg, outroBuffer, playVars, closedCtxUse, now >>

OutroAudioLoaded ==
    /\ pc = "outroAud"
    /\ outroBuffer' = TRUE
    /\ pc' = IF outro.imageUrl THEN "outroImg" ELSE "playIntro"
    /\ UNCHANGED << inputVars, besideRender, error, artifact, resourceVars, sceneLoad,
                    introImg, introAudioBuffer, outroImg, playVars,
                    closedCtxUse, now >>

OutroImageLoaded ==
    /\ pc = "outroImg"
    /\ outroImg' = TRUE
    /\ pc' = "playIntro"
    /\ UNCHANGED << inputVars, besideRender, error, artifact, resourceVars, sceneLoad,
                    introImg, introAudioBuffer, outroBuffer, playVars,
                    closedCtxUse, now >>

\* loadImage rejects (line 401) or loadAudioUniversal throws (line 406-410)
LoadError ==
    /\ pc \in {"introImg", "introAud", "outroAud", "outroImg"}
    /\ Catch(IF pc \in {"introImg", "outroImg"} THEN "AssetLoadError" ELSE "DecodeError")
    /\ UNCHANGED << inputVars, besideRender, gainEvents, artifact, assetVars, playVars, closedCtxUse, now >>

\* ---- the segment players ------------------------------------------------
\* An AudioBuffer's duration is read once, when its player starts (line 111,
\* 147, 199), so the model draws it there instead of carrying it from the
\* decode.
Running == { p \in DOMAIN segLog : segLog[p].st = "running" }

\* line 109: the image behind the outro
\* mutant: the last scene's image is preferred to the outro's own
bgImage_SceneFirst ==
    IF Len(sceneLoad) > 0 THEN "scene"
    ELSE IF outroImg THEN "outro"
    ELSE IF introImg THEN "intro"
    ELSE "none"

bgImage ==
    IF outroImg THEN "outro"
    ELSE IF Len(sceneLoad) > 0 THEN "scene"
    ELSE IF introImg THEN "intro"
    ELSE "none"

\* line 98, 105, 115: the image a player is given, as << owner, scene id >>
segImage(kind, idx) ==
    IF kind = "intro" THEN << "intro", 0 >>
    ELSE IF kind = "scene" THEN << "scene", idx >>
    ELSE IF bgImage = "scene" THEN << "scene", validScenes[Len(sceneLoad)].id >>
    ELSE << bgImage, 0 >>

\* line 141-147/179, 188-201/284, 292-298/322: the executor of a segment
\* player starts the narration and calls draw() once; elapsed is 0 then, so
\* the first frame is drawn before the player first yields.
StartSegment(kind, idx, audioDur, duration) ==
    /\ segLog' = Append(segLog, [kind |-> kind, idx |-> idx, st |-> "running",
                                 img |-> segImage(kind, idx),
                                 start |-> now, audioDur |-> audioDur,
                                 duration |-> duration])
    /\ voiceEnd' = IF now + audioDur > voiceEnd THEN now + audioDur ELSE voiceEnd
    /\ frameDrawn' = TRUE

\* line 160-163, 203-205, 309-311: one animation frame of player p; when
\* elapsed has reached the duration the player resolves and the scheduler,
\* which awaits it, goes on to `next`
Frame(p, awaiting, next) ==
    \E dt \in 1..MaxFrameStep :
      /\ now' = now + dt
      /\ IF now' - segLog[p].start >= segLog[p].duration
           THEN /\ segLog' = [segLog EXCEPT ![p] =
                       [kind |-> segLog[p].kind, idx |-> segLog[p].idx,
                        img |-> segLog[p].img,
                        st |-> "done", start |-> 0, audioDur |-> 0,
                        duration |-> 0]]
                /\ playedDur' = playedDur + segLog[p].duration
                /\ pc' = IF pc = awaiting THEN next ELSE pc
           ELSE UNCHANGED << segLog, playedDur, pc >>

\* line 97-99
introPlayable == introImg /\ introAudioBuffer

\* mutant: the intro player is started but not awaited
PlayIntro_NoAwait ==
    /\ pc = "playIntro"
    /\ IF introPlayable
         THEN \E d \in 1..MaxDur :
                StartSegment("intro", 0, d, d + BREATH_DURATION)
         ELSE UNCHANGED << segLog, voiceEnd, frameDrawn >>
    /\ pc' = "sceneLoop"
    /\ UNCHANGED << inputVars, besideRender, error, artifact, resourceVars, assetVars, i,
                    playedDur, progressLog, closedCtxUse, now >>

PlayIntro ==
    /\ pc = "playIntro"
    /\ IF introPlayable
         THEN /\ \E d \in 1..MaxDur :
                   StartSegment("intro", 0, d, d + BREATH_DURATION)
              /\ pc' = "intro"
         ELSE /\ pc' = "sceneLoop"
              /\ UNCHANGED << segLog, voiceEnd, frameDrawn >>
    /\ UNCHANGED << inputVars, besideRender, error, artifact, resourceVars, assetVars, i,
                    playedDur, progressLog, closedCtxUse, now >>

drawIntro ==
    /\ \E p \in Running :
         /\ segLog[p].kind = "intro"
         /\ Frame(p, "intro", "sceneLoop")
    /\ UNCHANGED << inputVars, besideRender, error, artifact, resourceVars, assetVars, i,
                    voiceEnd, frameDrawn, progressLog, closedCtxUse >>

\* line 101-106
\* mutant: the fraction counts the scene that is about to play
Report_CountsCurrent(num, den) ==
    IF onProgress THEN Append(progressLog, << num + 1, den >>) ELSE progressLog

Report(num, den) ==
    IF onProgress THEN Append(progressLog, << num, den >>) ELSE progressLog

\* mutant: the scene player resolves when the voice ends, without the pad
SceneLoop_NoPad ==
    /\ pc = "sceneLoop"
    /\ IF i < Len(sceneLoad)
         THEN /\ progressLog' = Report(i, Len(sceneLoad))
              /\ \E d \in 1..MaxDur :
                   StartSegment("scene", validScenes[i + 1].id, d, d)
              /\ pc' = "scene"
         ELSE /\ pc' = "outroDecide"
              /\ UNCHANGED << segLog, voiceEnd, frameDrawn, progressLog >>
    /\ UNCHANGED << inputVars, besideRender, error, artifact, resourceVars, assetVars, i,
                    playedDur, closedCtxUse, now >>

SceneLoop ==
    /\ pc = "sceneLoop"
    /\ IF i < Len(sceneLoad)
         THEN /\ progressLog' = Report(i, Len(sceneLoad))
              /\ \E d \in 1..MaxDur :
                   StartSegment("scene", validScenes[i + 1].id, d,
                                d + BREATH_DURATION)
              /\ pc' = "scene"
         ELSE /\ pc' = "outroDecide"
              /\ UNCHANGED << segLog, voiceEnd, frameDrawn, progressLog >>
    /\ UNCHANGED << inputVars, besideRender, error, artifact, resourceVars, assetVars, i,
                    playedDur, closedCtxUse, now >>

\* mutant: the loop index is not advanced
drawScene_NoAdvance ==
    /\ \E p \in Running :
         /\ segLog[p].kind = "scene"
         /\ Frame(p, "scene", "sceneLoop")
    /\ UNCHANGED << inputVars, besideRender, error, artifact, resourceVars, assetVars, i,
                    voiceEnd, frameDrawn, progressLog, closedCtxUse >>

drawScene ==
    /\ \E p \in Running :
         /\ segLog[p].kind = "scene"
         /\ Frame(p, "scene", "sceneLoop")
    /\ i' = IF pc = "scene" /\ pc' = "sceneLoop" THEN i + 1 ELSE i
    /\ UNCHANGED << inputVars, besideRender, error, artifact, resourceVars, assetVars,
                    voiceEnd, frameDrawn, progressLog, closedCtxUse >>

\* line 108-117
outroPlayable == outro.present /\ outroBuffer /\ bgImage # "none"

\* line 111-114: the fade of the ambient bed, scheduled at the voice's end
\* mutant: the level is pinned at the voice's end but no ramp follows
OutroFade_NoRamp(voiceDuration) ==
    << [op |-> "set", v |-> BGM_LEVEL, t |-> now + voiceDuration] >>

OutroFade(voiceDuration) ==
    << [op |-> "set", v |-> BGM_LEVEL, t |-> now + voiceDuration],
       [op |-> "ramp", v |-> 0, t |-> now + voiceDuration + FADE_OUT] >>

\* mutant: the bed is stopped when the outro starts instead of after it
PlayOutro_StopsBedEarly ==
    /\ pc = "outroDecide"
    /\ IF outroPlayable
         THEN \E voiceDuration \in 1..MaxDur :
                /\ gainEvents' = gainEvents \o OutroFade(voiceDuration)
                /\ StartSegment("outro", 0, voiceDuration,
                                voiceDuration + OUTRO_EXTRA)
                /\ bgm' = "stopped"
                /\ resLog' = Append(resLog, Call("bgm.stop"))
                /\ pc' = "outro"
         ELSE /\ pc' = "finish"
              /\ UNCHANGED << gainEvents, segLog, voiceEnd, frameDrawn, bgm, resLog >>
    /\ UNCHANGED << inputVars, besideRender, error, artifact, audioContext, stream, recorder,
                    gainValue, recStart, recStop, assetVars, i,
                    playedDur, progressLog, closedCtxUse, now >>

PlayOutro ==
    /\ pc = "outroDecide"
    /\ IF outroPlayable
         THEN \E voiceDuration \in 1..MaxDur :
                /\ gainEvents' = gainEvents \o OutroFade(voiceDuration)
                /\ StartSegment("outro", 0, voiceDuration,
                                voiceDuration + OUTRO_EXTRA)
                /\ pc' = "outro"
         ELSE /\ pc' = "finish"
              /\ UNCHANGED << gainEvents, segLog, voiceEnd, frameDrawn >>
    /\ UNCHANGED << inputVars, besideRender, error, artifact, audioContext, stream, recorder,
                    bgm, gainValue, resLog, recStart, recStop, assetVars, i,
                    playedDur, progressLog, closedCtxUse, now >>

drawOutro ==
    /\ \E p \in Running :
         /\ segLog[p].kind = "outro"
         /\ Frame(p, "outro", "finish")
    /\ UNCHANGED << inputVars, besideRender, error, artifact, resourceVars, assetVars, i,
                    voiceEnd, frameDrawn, progressLog, closedCtxUse >>

\* the executor of a segment player throws (getImageData, createBufferSource,
\* start): the promise rejects and line 121 catches it; what the scheduler
\* did before the call (line 103, line 111-114) has been done
PlayerThrows ==
    /\ \/ pc = "playIntro" /\ introPlayable
       \/ pc = "sceneLoop" /\ i < Len(sceneLoad)
       \/ pc = "outroDecide" /\ outroPlayable
    /\ progressLog' = IF pc = "sceneLoop" THEN Report(i, Len(sceneLoad)) ELSE progressLog
    /\ IF pc = "outroDecide"
         THEN \E voiceDuration \in 1..MaxDur :
                gainEvents' = gainEvents \o OutroFade(voiceDuration)
         ELSE UNCHANGED gainEvents
    /\ Catch("SegmentError")
    /\ UNCHANGED << inputVars, besideRender, artifact, assetVars, i, segLog, voiceEnd,
                    playedDur, frameDrawn, closedCtxUse, now >>

\* ---- line 119-120, 127-131: the success path after the last segment ------
Finish ==
    /\ pc = "finish"
    /\ bgm' = "stopped"
    /\ progressLog' = Report(1, 1)
    /\ recorder' = "stopped"
    /\ recStop' = now
    /\ audioContext' = "closed"
    /\ resLog' = resLog \o << Call("bgm.stop"), Call("recorder.stop"),
                              Call("audioContext.close") >>
    /\ pc' = "awaitStop"
    /\ UNCHANGED << inputVars, besideRender, error, artifact, stream, gainValue, gainEvents,
                    recStart, assetVars, i, segLog, voiceEnd, playedDur,
                    frameDrawn, closedCtxUse, now >>

\* line 66: recorder.start() of line 67 passes no timeslice, so the recorder
\* delivers its data in one dataavailable event, fired by stop() before the
\* stop event; the handler keeps a blob that is not empty
\* mutant: the handler keeps every blob
ondataavailable_KeepsEmpty(size) == Append(chunks, size)

ondataavailable(size) == IF size > 0 THEN Append(chunks, size) ELSE chunks

DataAvailable ==
    /\ recorder = "stopped"
    /\ delivered = << >>
    /\ \E size \in {0, 1} :
         /\ delivered' = << size >>
         /\ chunks' = ondataavailable(size)
    /\ UNCHANGED << inputVars, besideChunks, pc, error, artifact, resourceVars,
                    assetVars, playVars, closedCtxUse, now >>

\* mutant: the stop handler is registered when the recorder is created, so
\* the stop issued by the catch block produces an artifact too
RecorderOnStop_AnyStop ==
    /\ recorder = "stopped"
    /\ ~artifact
    /\ artifact' = TRUE
    /\ pc' = IF pc = "awaitStop" THEN "done" ELSE pc
    /\ UNCHANGED << inputVars, besideRender, error, resourceVars, assetVars, playVars,
                    closedCtxUse, now >>

\* mutant: the stop event is delivered before line 131 has registered the
\* handler, and nothing resolves the returned promise
RecorderOnStop_NoHandler ==
    /\ pc = "awaitStop"
    /\ pc' = "unresolved"
    /\ UNCHANGED << inputVars, besideRender, error, artifact, resourceVars, assetVars,
                    playVars, closedCtxUse, now >>

\* line 131: the recorder's stop event resolves the returned promise
RecorderOnStop ==
    /\ pc = "awaitStop"
    /\ delivered # << >>
    /\ artifact' = TRUE
    /\ pc' = "done"
    /\ UNCHANGED << inputVars, besideRender, error, resourceVars, assetVars, playVars,
                    closedCtxUse, now >>

\* ======================= loadAudioUniversal (line 405-415) ===============
\* One call of loadAudioUniversal followed on its own, from the fetch to its
\* return or throw.  The bytes of the response are drawn from a small
\* alphabet that holds the extreme sample bytes and the letters of "RIFF".
Byte == {0, 1, 70, 73, 82, 127, 128, 255}

ByteSeqs == UNION { [1..n -> Byte] : n \in 0..MaxBytes }

\* line 406-407: fetch(src) and response.arrayBuffer()
Fetched ==
    /\ aPc = "fetch"
    /\ ab' \in ByteSeqs
    /\ aPc' = "fetched"
    /\ UNCHANGED << besideAudio, copy, rejected, result >>

FetchFails ==
    /\ aPc = "fetch"
    /\ aPc' = "thrown"
    /\ result' = [NoBuffer EXCEPT !.kind = "TypeError"]
    /\ UNCHANGED << besideAudio, ab, copy, rejected >>

\* line 408: the decoder is handed ab.slice(0), a copy of the bytes
StartDecode ==
    /\ aPc = "fetched"
    /\ copy' = ab
    /\ aPc' = "decoding"
    /\ UNCHANGED << besideAudio, ab, rejected, result >>

\* line 408: decodeAudioData resolves; the platform decides, it may detach
\* the buffer it was given, and it never decodes an empty body
DecodeResolves ==
    /\ aPc = "decoding"
    /\ copy # << >>
    /\ copy' \in {copy, << >>}
    /\ result' = [NoBuffer EXCEPT !.kind = "decoded"]
    /\ aPc' = "returned"
    /\ UNCHANGED << besideAudio, ab, rejected >>

\* mutant: the decoder was handed ab itself, so that a decoder that
\* detaches its input leaves the catch clause an empty ab
DecodeRejects_Shared ==
    /\ aPc = "decoding"
    /\ ab' \in {ab, << >>}
    /\ copy' = ab'
    /\ rejected' = TRUE
    /\ aPc' = "fallback"
    /\ UNCHANGED << besideAudio, result >>

\* line 408: decodeAudioData rejects and the catch clause is entered
DecodeRejects ==
    /\ aPc = "decoding"
    /\ copy' \in {copy, << >>}
    /\ rejected' = TRUE
    /\ aPc' = "fallback"
    /\ UNCHANGED << besideAudio, ab, result >>

\* mutant: the two bytes of a sample are read as an unsigned number
int16_Unsigned(lo, hi) == lo + 256 * hi

\* line 409: an element of new Int16Array(ab), little-endian two's complement
int16(lo, hi) ==
    IF lo + 256 * hi >= 32768 THEN lo + 256 * hi - 65536 ELSE lo + 256 * hi

\* line 409: new Int16Array(ab)
samples == [k \in 1..(Len(ab) \div 2) |-> int16(ab[2 * k - 1], ab[2 * k])]

\* line 409-413: the catch clause.  Int16Array throws a RangeError for a
\* byte length that is not a multiple of 2, createBuffer throws a
\* NotSupportedError for a length of 0; a sample is kept as the fraction
\* << samples[i], 32768 >>.
PcmFallback ==
    /\ aPc = "fallback"
    /\ IF Len(ab) % 2 # 0
         THEN /\ result' = [NoBuffer EXCEPT !.kind = "RangeError"]
              /\ aPc' = "thrown"
         ELSE IF Len(samples) = 0
         THEN /\ result' = [NoBuffer EXCEPT !.kind = "NotSupportedError"]
              /\ aPc' = "thrown"
         ELSE /\ result' = [kind |-> "pcm", channels |-> 1,
                            sampleRate |-> PCM_RATE,
                            data |-> [k \in DOMAIN samples |->
                                         << samples[k], PCM_SCALE >>]]
              /\ aPc' = "returned"
    /\ UNCHANGED << besideAudio, ab, copy, rejected >>

InitAudio ==
    /\ NoRender
    /\ SegIdle
    /\ SubIdle
    /\ TitleIdle
    /\ PairIdle
    /\ aPc = "fetch"
    /\ ab = << >>
    /\ copy = << >>
    /\ rejected = FALSE
    /\ result = NoBuffer

NextAudio ==
    \/ Fetched
    \/ FetchFails
    \/ StartDecode
    \/ DecodeResolves
    \/ DecodeRejects
    \/ PcmFallback

SpecAudio == InitAudio /\ [][NextAudio]_vars

\* ======================= the segment players (line 137-324) ==============
\* One call of playIntroSegment, playSceneSegment or playOutroSegment followed
\* on its own, frame by frame.  A drawing operation is a rectangle painted
\* from a source with an opacity; x runs over the width and y over the
\* height of the canvas, both counted in 1/Den(T) of the canvas, T being the
\* player's duration, and the opacity is counted in 1/TRANS_DURATION.
TRANSITIONS == {"fade", "slideLeft", "slideRight", "slideUp", "slideDown",
                "zoom", "wipeLeft", "wipeRight"}

\* line 147, 200, 115: how long the player runs
sDuration ==
    IF sKind = "outro" THEN sAudioDur + OUTRO_EXTRA
    ELSE sAudioDur + BREATH_DURATION

Den(T) == 4800 * T

Op(src, x, y, w, h, a) ==
    [src |-> src, x0 |-> x, x1 |-> x + w, y0 |-> y, y1 |-> y + h, a |-> a]

\* line 212: tp = Math.min(elapsed / TRANS_DURATION, 1), in 1/TRANS_DURATION
tp(e) == IF e < TRANS_DURATION THEN e ELSE TRANS_DURATION

\* line 218-220: the zoomed size of the image and its offset; the scale is
\* 1.02 + 0.08 * elapsed / totalDur
\* mutant: the image is drawn slightly smaller than the canvas
sw_Shrunk(e, T) == 48 * (90 * T + 8 * e)

sw(e, T) == 48 * (102 * T + 8 * e)

bx(e, T) == (Den(T) - sw(e, T)) \div 2

\* line 214-272: the operations of one frame of playSceneSegment
composeScene(kind, e, T) ==
    LET black == Op("black", 0, 0, Den(T), Den(T), TRANS_DURATION)
        snap  == Op("snapshot", 0, 0, Den(T), Den(T), TRANS_DURATION)
        size  == sw(e, T)
        off   == bx(e, T)
        away  == 400 * T * (TRANS_DURATION - tp(e))
        shown == 400 * T * tp(e)
        zoomed == ((TRANS_DURATION + tp(e)) * size) \div (2 * TRANS_DURATION)
    IN  IF e < TRANS_DURATION
          THEN CASE kind = "fade" ->
                      << black, snap, Op("image", off, off, size, size, tp(e)) >>
                 [] kind = "slideLeft" ->
                      << black, snap,
                         Op("image", off + away, off, size, size, TRANS_DURATION) >>
                 [] kind = "slideDown" ->
                      << black, snap,
                         Op("image", off, off - away, size, size, TRANS_DURATION) >>
                 [] kind = "slideRight" ->
                      << black, snap,
                         Op("image", off - away, off, size, size, TRANS_DURATION) >>
                 [] kind = "slideUp" ->
                      << black, snap,
                         Op("image", off, off + away, size, size, TRANS_DURATION) >>
                 [] kind = "wipeLeft" ->
                      << black, snap,
                         Op("image", 0, 0, shown, Den(T), TRANS_DURATION) >>
                 [] kind = "wipeRight" ->
                      << black, snap,
                         Op("image", away, 0, shown, Den(T), TRANS_DURATION) >>
                 [] kind = "zoom" ->
                      << black, snap,
                         Op("image", (Den(T) - zoomed) \div 2, (Den(T) - zoomed) \div 2,
                            zoomed, zoomed, tp(e)) >>
                 [] OTHER ->
                      << black, Op("image", off, off, size, size, tp(e)) >>
          ELSE << black, Op("image", off, off, size, size, TRANS_DURATION) >>

\* line 163-165: the image of a frame of playIntroSegment, scaled by
\* 1.0 + 0.05 * elapsed / duration (the shade and the title are left out)
composeIntro(e, T) ==
    << Op("image", (Den(T) - 48 * (100 * T + 5 * e)) \div 2,
          (Den(T) - 48 * (100 * T + 5 * e)) \div 2,
          48 * (100 * T + 5 * e), 48 * (100 * T + 5 * e), TRANS_DURATION) >>

\* line 313: the image of a frame of playOutroSegment (the shade and the
\* message are left out)
composeOutro(e, T) == << Op("image", 0, 0, Den(T), Den(T), TRANS_DURATION) >>

\* mutant: elapsed / audioDur is not capped at 1
audioProgress_NoMin(e) ==
    IF e < sAudioDur + SUBTITLE_HOLD
      THEN << e, sAudioDur >>
      ELSE << 1, 1 >>

\* line 210, 275-280: the progress handed to drawSubtitles, as a fraction
audioProgress(e) ==
    IF e < sAudioDur + SUBTITLE_HOLD
      THEN << IF e < sAudioDur THEN e ELSE sAudioDur, sAudioDur >>
      ELSE << 1, 1 >>

\* line 163-177, 208-282, 312-320: the body of draw() past its first line
DrawFrame(e) ==
    /\ frame' = IF sKind = "scene" THEN composeScene(transition, e, sDuration)
                ELSE IF sKind = "intro" THEN composeIntro(e, sDuration)
                ELSE composeOutro(e, sDuration)
    /\ canvas' = [by |-> sKind, at |-> e]
    /\ spoken' = IF sKind = "scene" THEN audioProgress(e) ELSE spoken

\* mutant: the snapshot is taken after the first draw()
CallPlayer_LateSnapshot ==
    /\ sPc = "idle"
    /\ DrawFrame(0)
    /\ snapshot' = IF sKind = "scene" THEN canvas' ELSE snapshot
    /\ sStarts' = sStarts + 1
    /\ sClock' = 0
    /\ sPc' = "drawing"
    /\ UNCHANGED << besideSeg, sKind, transition, sAudioDur, sResolves >>

\* line 141-148/179, 188-201/284, 292-298/322: the executor of the promise
\* takes the snapshot (scene), starts the narration and calls draw() once
CallPlayer ==
    /\ sPc = "idle"
    /\ snapshot' = IF sKind = "scene" THEN canvas ELSE snapshot
    /\ sStarts' = sStarts + 1
    /\ sClock' = 0
    /\ DrawFrame(0)
    /\ sPc' = "drawing"
    /\ UNCHANGED << besideSeg, sKind, transition, sAudioDur, sResolves >>

\* mutant: draw() resolves but does not return: it draws and requests the
\* next frame all the same
AnimationFrame_NoReturn ==
    /\ sPc = "drawing"
    /\ \E dt \in 1..MaxFrameStep :
         /\ sClock' = sClock + dt
         /\ sResolves' = IF sClock' >= sDuration THEN sResolves + 1 ELSE sResolves
         /\ DrawFrame(sClock')
         /\ UNCHANGED sPc
    /\ UNCHANGED << besideSeg, sKind, transition, sAudioDur, snapshot, sStarts >>

\* line 160-162, 203-205, 309-311: a frame callback; draw() resolves and
\* requests no further frame once elapsed has reached the duration
AnimationFrame ==
    /\ sPc = "drawing"
    /\ \E dt \in 1..MaxFrameStep :
         /\ sClock' = sClock + dt
         /\ IF sClock' >= sDuration
              THEN /\ sResolves' = sResolves + 1
                   /\ sPc' = "resolved"
                   /\ UNCHANGED << frame, canvas, spoken >>
              ELSE /\ DrawFrame(sClock')
                   /\ UNCHANGED << sResolves, sPc >>
    /\ UNCHANGED << besideSeg, sKind, transition, sAudioDur, snapshot, sStarts >>

\* the canvas a player finds: blank, or the last frame of the segment before
InitSegment ==
    /\ NoRender
    /\ AudioIdle
    /\ SubIdle
    /\ TitleIdle
    /\ PairIdle
    /\ sPc = "idle"
    /\ \/ sKind = "scene" /\ transition \in TRANSITIONS
       \/ sKind \in {"intro", "outro"} /\ transition = "none"
    /\ sAudioDur \in 1..MaxAudio
    /\ sClock = 0
    /\ snapshot = Blank
    /\ canvas \in {Blank, [by |-> "previous", at |-> 0]}
    /\ frame = << >>
    /\ spoken = << 0, 1 >>
    /\ sStarts = 0
    /\ sResolves = 0

NextSegment ==
    \/ CallPlayer
    \/ AnimationFrame

SpecSegment == InitSegment /\ [][NextSegment]_vars

\* ======================= drawSubtitles (line 329-396) ====================
\* One text handed to drawSubtitles at several progress values.  A text is
\* the sequence of the words text.split(' ') yields, each with its number
\* of characters and its measured width in pixels; the empty word (of an
\* empty text, or between two spaces) has no character and no width.  The
\* width of a string is the sum of the widths of its words and spaces.
Words ==
    { [len |-> 0, width |-> 0] } \cup
    { [len |-> n, width |-> k * WIDTH_STEP] :
        n \in 1..MaxWordLen, k \in 1..MaxWidthSteps }

Texts == UNION { [1..n -> Words] : n \in 1..MaxWords }

\* line 340: cw - 100
maxLineWidth == CANVAS_WIDTH - LINE_MARGIN

\* mutant: a word is appended to the line whatever the width
fits_Always(cur, word) == TRUE

\* line 340: ctx.measureText(cur + " " + words[i]).width < cw - 100
fits(cur, word) == cur.width + SPACE_WIDTH + word.width < maxLineWidth

\* line 338-343: the word wrap; a line is kept as its number of
\* characters and its measured width
RECURSIVE wrapFrom(_, _, _, _)
wrapFrom(words, k, cur, lines) ==
    IF k > Len(words) THEN Append(lines, cur)
    ELSE IF fits(cur, words[k])
      THEN wrapFrom(words, k + 1,
                    [len |-> cur.len + 1 + words[k].len,
                     width |-> cur.width + SPACE_WIDTH + words[k].width], lines)
      ELSE wrapFrom(words, k + 1, words[k], Append(lines, cur))

wrap(words) == wrapFrom(words, 2, words[1], << >>)

\* mutant: the length counts a terminator after the last character
RECURSIVE totalChars_Terminated(_)
totalChars_Terminated(words) ==
    IF Len(words) = 1 THEN words[1].len + 1
    ELSE words[1].len + 1 + totalChars_Terminated(Tail(words))

\* line 354: text.length
RECURSIVE totalChars(_)
totalChars(words) ==
    IF Len(words) = 1 THEN words[1].len
    ELSE words[1].len + 1 + totalChars(Tail(words))

\* mutant: the accumulator is not carried from line to line
charAccumulator_Reset(lines, n) == 0

\* line 355, 394: charAccumulator when line i is reached
RECURSIVE charAccumulator(_, _)
charAccumulator(lines, n) ==
    IF n = 1 THEN 0 ELSE charAccumulator(lines, n - 1) + lines[n - 1].len + 1

\* mutant: the highlight of a line is not capped at the line's end
lineLocalProgress_NoClamp(p, acc, len, total) ==
    IF len = 0 THEN << 1, 1 >>
    ELSE << p * total - 4 * acc, 4 * len >>

\* line 377: Math.min((progress - lineStartProgress) /
\* (lineEndProgress - lineStartProgress), 1) as a fraction, p in quarters;
\* for a line of no character the quotient is +Infinity and the minimum 1
lineLocalProgress(p, acc, len, total) ==
    IF len = 0 THEN << 1, 1 >>
    ELSE IF p * total - 4 * acc >= 4 * len THEN << 1, 1 >>
    ELSE << p * total - 4 * acc, 4 * len >>

\* line 358-395: what is drawn for line i: the glyphs of the base text
\* (line 367), whether the highlight branch is entered (line 376; for a text
\* of no character lineStartProgress is NaN and the comparison is false),
\* and the part of the line's width the clip rectangle spans (line 383)
drawLine(words, p, n) ==
    LET lines == wrap(words)
        total == totalChars(words)
        acc == charAccumulator(lines, n)
        on == total # 0 /\ p * total > 4 * acc
    IN  [base |-> lines[n].len,
         width |-> lines[n].width,
         highlight |-> on,
         clip |-> IF on THEN lineLocalProgress(p, acc, lines[n].len, total)
                  ELSE << 0, 1 >>]

\* line 329-396
drawSubtitles ==
    /\ text # << >>
    /\ \E p \in 0..MaxProgress :
         /\ progress' = p
         /\ subs' = [n \in DOMAIN wrap(text) |-> drawLine(text, p, n)]
    /\ UNCHANGED << besideSub, text >>

InitSubtitles ==
    /\ NoRender
    /\ AudioIdle
    /\ SegIdle
    /\ TitleIdle
    /\ PairIdle
    /\ text \in Texts
    /\ progress = 0
    /\ subs = << >>

NextSubtitles == drawSubtitles

SpecSubtitles == InitSubtitles /\ [][NextSubtitles]_vars

\* ======================= the title of the intro (line 149-158) ===========
\* The layout of one title by the executor of playIntroSegment.  A title is
\* the sequence of the words title.toUpperCase().split(' ') yields, each with
\* its measured width in the 60px font (the number of characters plays no
\* part in the layout).
\* line 155: ctx.measureText(currentLine + " " + words[i]).width < width - 100
titleFits(cur, word) ==
    cur.width + TITLE_SPACE + word.width < CANVAS_WIDTH - LINE_MARGIN

\* line 152-158: the word wrap of the title; a line is kept as its number
\* of characters and its measured width
RECURSIVE titleFrom(_, _, _, _)
titleFrom(words, k, currentLine, done) ==
    IF k > Len(words) THEN Append(done, currentLine)
    ELSE IF titleFits(currentLine, words[k])
      THEN titleFrom(words, k + 1,
                     [len |-> currentLine.len + 1 + words[k].len,
                      width |-> currentLine.width + TITLE_SPACE + words[k].width],
                     done)
      ELSE titleFrom(words, k + 1, words[k], Append(done, currentLine))

\* line 149-158
layoutTitle ==
    /\ title # << >>
    /\ titleLines = << >>
    /\ titleLines' = titleFrom(title, 2, title[1], << >>)
    /\ UNCHANGED << besideTitle, title >>

InitTitle ==
    /\ NoRender
    /\ AudioIdle
    /\ SegIdle
    /\ SubIdle
    /\ PairIdle
    /\ title \in Texts
    /\ titleLines = << >>

NextTitle == layoutTitle

SpecTitle == InitTitle /\ [][NextTitle]_vars

\* ======================= two invocations (line 31-133) ===================
\* Two invocations of generateSequentialVideo whose steps interleave at
\* their awaits (line 43, 77-95, the segment players, line 130).  Every
\* object an invocation creates is entered in `heap` with its creator; an
\* invocation reaches an object through its own local constant only, and
\* every call it makes is logged in `ops` with the object it was made on.
\* line 47, 53, 60, 65, 69: the n-th object this set-up creates is new
\* mutant: the five objects are module-level, created once for all calls
fresh_Singleton(n) == n

fresh(n) == Len(heap) + n

did(k, op, on) == [by |-> k, op |-> op, on |-> on]

\* line 38-43: the call runs up to await document.fonts.ready
pCall(k) ==
    /\ inv[k].pc = "call"
    /\ inv' = [inv EXCEPT ![k].pc = "fonts"]
    /\ UNCHANGED << besidePair, heap, ops >>

\* line 45-77: canvas, audio context, recorder, chunk list and ambient bed
\* are created, the recorder and the bed are started
pSetup(k) ==
    /\ inv[k].pc = "fonts"
    /\ heap' = heap \o [n \in 1..5 |-> [by |-> k]]
    /\ inv' = [inv EXCEPT ![k] =
                 [pc |-> "loading", canvas |-> fresh(1), audioContext |-> fresh(2),
                  recorder |-> fresh(3), chunks |-> fresh(4),
                  bgmNodes |-> fresh(5), frames |-> 0]]
    /\ ops' = ops \cup { did(k, "captureStream", fresh(1)),
                          did(k, "createMediaStreamDestination", fresh(2)),
                          did(k, "recorder.start", fresh(3)),
                          did(k, "bgm.start", fresh(5)),
                          did(k, "gain.schedule", fresh(5)) }
    /\ UNCHANGED besidePair

\* line 66: the recorder delivers a chunk
pDataAvailable(k) ==
    /\ inv[k].pc \in {"loading", "playing"}
    /\ ops' = ops \cup { did(k, "chunks.push", inv[k].chunks) }
    /\ UNCHANGED << besidePair, heap, inv >>

\* line 77-95: the loads settle; loadAudioUniversal decodes on the context
pLoaded(k) ==
    /\ inv[k].pc = "loading"
    /\ inv' = [inv EXCEPT ![k].pc = "playing"]
    /\ ops' = ops \cup { did(k, "decodeAudioData", inv[k].audioContext) }
    /\ UNCHANGED << besidePair, heap >>

\* line 121-125: a load fails
pLoadFails(k) ==
    /\ inv[k].pc = "loading"
    /\ inv' = [inv EXCEPT ![k].pc = "failed"]
    /\ ops' = ops \cup { did(k, "recorder.stop", inv[k].recorder),
                          did(k, "audioContext.close", inv[k].audioContext) }
    /\ UNCHANGED << besidePair, heap >>

\* line 98-115: a segment player starts its narration and draws a frame
pFrame(k) ==
    /\ inv[k].pc = "playing"
    /\ inv[k].frames < MaxPairFrames
    /\ inv' = [inv EXCEPT ![k].frames = @ + 1]
    /\ ops' = ops \cup { did(k, "source.start", inv[k].audioContext),
                          did(k, "getImageData", inv[k].canvas),
                          did(k, "drawImage", inv[k].canvas),
                          did(k, "gain.schedule", inv[k].bgmNodes) }
    /\ UNCHANGED << besidePair, heap >>

\* line 119, 127-128
pFinish(k) ==
    /\ inv[k].pc = "playing"
    /\ inv[k].frames >= 1
    /\ inv' = [inv EXCEPT ![k].pc = "awaitStop"]
    /\ ops' = ops \cup { did(k, "bgm.stop", inv[k].bgmNodes),
                          did(k, "recorder.stop", inv[k].recorder),
                          did(k, "audioContext.close", inv[k].audioContext) }
    /\ UNCHANGED << besidePair, heap >>

\* line 131: the stop event; the blob is made of the chunk list
pOnStop(k) ==
    /\ inv[k].pc = "awaitStop"
    /\ inv' = [inv EXCEPT ![k].pc = "done"]
    /\ ops' = ops \cup { did(k, "Blob", inv[k].chunks) }
    /\ UNCHANGED << besidePair, heap >>

InitPair ==
    /\ NoRender
    /\ AudioIdle
    /\ SegIdle
    /\ SubIdle
    /\ TitleIdle
    /\ heap = << >>
    /\ inv = << NoLocals, NoLocals >>
    /\ ops = {}

NextPair ==
    \E k \in 1..2 :
        \/ pCall(k)
        \/ pSetup(k)
        \/ pDataAvailable(k)
        \/ pLoaded(k)
        \/ pLoadFails(k)
        \/ pFrame(k)
        \/ pFinish(k)
        \/ pOnStop(k)

SpecPair == InitPair /\ [][NextPair]_vars

\* ======================= properties of the compositor ====================
Renderable == { k \in DOMAIN scenes : scenes[k].imageUrl /\ scenes[k].audioUrl }

IntroGiven == intro.present /\ intro.imageUrl /\ intro.audioUrl

InputEmpty == Renderable = {} /\ ~IntroGiven /\ ~(outro.present /\ outro.audioUrl)

PlayedScenes == SelectSeq(segLog, LAMBDA e : e.kind = "scene")

Done == { p \in DOMAIN segLog : segLog[p].st = "done" }

LoadFailure == error \in {"AssetLoadError", "DecodeError"}

\* C1: a call with no playable intro, no renderable scene and no outro audio
\* fails with the empty-timeline error at once, and no audio context, capture
\* stream, recorder or ambient bed has been created.
C1_EmptyTimelineFailsFirst ==
    InputEmpty =>
        /\ pc \in {"start", "failed"}
        /\ pc = "failed" => error = "EmptyTimelineError"
        /\ audioContext = "none"
        /\ ~stream
        /\ recorder = "none"
        /\ bgm = "none"
        /\ ~artifact

C1_Witness ==
    /\ InputEmpty
    /\ Len(scenes) > 0
    /\ outro.present
    /\ pc = "failed"
    /\ error = "EmptyTimelineError"

\* C2: a timeline that passes the empty-timeline check never yields an
\* artifact after playing zero segments.
C2_ArtifactPlayedASegment ==
    artifact => Done # {}

\* C3: the scene segments loaded and played are exactly the scenes that have
\* both sources, each once and in input order; a scene missing a source is
\* neither loaded nor played.
C3_RenderableScenesInOrder ==
    /\ \A j \in DOMAIN PlayedScenes : PlayedScenes[j].idx \in Renderable
    /\ \A j \in 1..(Len(PlayedScenes) - 1) :
          PlayedScenes[j].idx < PlayedScenes[j + 1].idx
    /\ audioContext # "none" /\ bgm # "none" => Len(sceneLoad) = Cardinality(Renderable)
    /\ artifact => { PlayedScenes[j].idx : j \in DOMAIN PlayedScenes } = Renderable

C3_Witness ==
    /\ artifact
    /\ Len(scenes) = 2
    /\ Renderable = {2}
    /\ Len(PlayedScenes) = 1

\* C4: segments start in the order intro, scenes, outro; a scene starts only
\* when the intro is Done, the outro only when every scene is Done, and no
\* segment is started twice.
KindRank(e) == IF e.kind = "intro" THEN 0 ELSE IF e.kind = "scene" THEN 1 ELSE 2

C4_TimelineOrder ==
    /\ \A p, q \in DOMAIN segLog :
          p < q => /\ KindRank(segLog[p]) <= KindRank(segLog[q])
                   /\ << segLog[p].kind, segLog[p].idx >> # << segLog[q].kind, segLog[q].idx >>
                   /\ segLog[p].st = "done"
    /\ \A q \in DOMAIN segLog :
          segLog[q].kind = "outro" => Len(PlayedScenes) = Cardinality(Renderable)

C4_Witness ==
    /\ Len(segLog) = 3
    /\ segLog[1].kind = "intro"
    /\ segLog[2].kind = "scene"
    /\ segLog[3].kind = "outro"
    /\ segLog[3].st = "done"

\* C5: at most one segment player is active at any instant, and whenever
\* none is active every narration started so far has stopped sounding, so a
\* player starts only after its predecessor has resolved and its voice ended.
C5_OnePlayerAtATime ==
    /\ Cardinality(Running) <= 1
    /\ Running # {} => Running = {Len(segLog)}
    /\ Running = {} => voiceEnd <= now

C5_Witness ==
    /\ Len(segLog) >= 2
    /\ Done # {}
    /\ Running # {}

\* C6: an invocation ends in at most one of {artifact, error}: a failed
\* render never creates the artifact and a render that returned an artifact
\* raised no error.
C6_OneOutcome ==
    /\ ~(artifact /\ error # "none")
    /\ pc = "failed" <=> error # "none"
    /\ pc = "done" <=> artifact

C6_Witness ==
    /\ pc = "failed"
    /\ error = "SegmentError"
    /\ recorder = "stopped"
    /\ Done # {}

\* C7: when asset loading or a segment fails after the resources were
\* opened, the ambient bed is stopped, the audio context closed and the
\* recorder stopped before the error reaches the caller.
C7_FailureReleasesEverything ==
    (pc = "failed" /\ (LoadFailure \/ error = "SegmentError")) =>
        /\ bgm = "stopped"
        /\ audioContext = "closed"
        /\ recorder = "stopped"

\* C8: if creating the capture stream, constructing the recorder or starting
\* it throws, the audio context opened before is closed before the error
\* reaches the caller.
C8_CaptureFailureClosesAudio ==
    (pc = "failed" /\ error = "CaptureError") => audioContext = "closed"

\* C9: every asset of the timeline is loaded before the first segment starts;
\* when a load fails the render aborts with that error, no segment has
\* started, no frame was drawn, and the recorder stop and the audio context
\* close have been issued.
C9_LoadBeforePlay ==
    /\ segLog # << >> =>
          /\ Len(sceneLoad) = Cardinality(Renderable)
          /\ \A k \in DOMAIN sceneLoad : sceneLoad[k] = "done"
          /\ IntroGiven => introImg /\ introAudioBuffer
          /\ outro.present => outroBuffer /\ (outro.imageUrl => outroImg)
    /\ LoadFailure =>
          /\ pc = "failed"
          /\ segLog = << >>
          /\ ~frameDrawn
          /\ recorder = "stopped"
          /\ audioContext = "closed"

C9_Witness ==
    /\ LoadFailure
    /\ pc = "failed"
    /\ Len(sceneLoad) = 2
    /\ \A k \in DOMAIN sceneLoad : sceneLoad[k] = "done"
    /\ IntroGiven /\ introImg /\ introAudioBuffer
    /\ outro.present /\ ~outroBuffer

\* C10: the captured duration of a successful render, from recorder start to
\* recorder stop, is the sum of the played segments' durations within one
\* frame interval; loading time is not part of it.  Stated for the renders
\* that played a segment.
C10_CapturedDuration ==
    artifact /\ Done # {} =>
        /\ recStop - recStart >= playedDur
        /\ recStop - recStart <= playedDur + MaxFrameStep

\* C11 (as claimed): every scene segment and the outro segment lasts its own
\* narration plus one and the same pad, BREATH_DURATION.
C11_SamePadForScenesAndOutro ==
    \A p \in Running :
        segLog[p].kind \in {"scene", "outro"} =>
            segLog[p].duration = segLog[p].audioDur + BREATH_DURATION

\* C11 (amended): a scene segment lasts its narration plus BREATH_DURATION
\* (0.8 s) and the outro segment its narration plus 1.5 s; a running player
\* has not yet used up that duration.
C11_PadPerSegmentKind ==
    \A p \in Running :
        /\ segLog[p].kind = "scene" =>
              segLog[p].duration = segLog[p].audioDur + BREATH_DURATION
        /\ segLog[p].kind = "outro" =>
              segLog[p].duration = segLog[p].audioDur + OUTRO_EXTRA
        /\ now - segLog[p].start < segLog[p].duration

C11_Witness ==
    /\ Len(PlayedScenes) >= 1
    /\ \E p \in Running :
         /\ segLog[p].kind = "outro"
         /\ now - segLog[p].start >= segLog[p].audioDur + BREATH_DURATION

\* C12: on a successful render with n >= 1 renderable scenes and a progress
\* callback, the callback is invoked once per scene boundary (before each
\* scene and after the last): the values are strictly increasing, lie in
\* [0,1], each is the fraction of scenes completed at that moment, and the
\* last is 1.
FracLess(a, b) == a[1] * b[2] < b[1] * a[2]

C12_ProgressPerBoundary ==
    onProgress =>
        IF progressLog = << >>
          THEN (artifact \/ PlayedScenes # << >>) => Renderable = {}
          ELSE LET n == Cardinality(Renderable)
                   scenesDone == Cardinality({ p \in DOMAIN segLog :
                                    segLog[p].kind = "scene" /\ segLog[p].st = "done" })
               IN  n >= 1 =>
                     /\ Len(progressLog) <= n + 1
                     /\ \A k \in DOMAIN progressLog :
                           /\ progressLog[k][2] > 0
                           /\ 0 <= progressLog[k][1]
                           /\ progressLog[k][1] <= progressLog[k][2]
                           /\ k <= n => progressLog[k] = << k - 1, n >>
                           /\ k > 1 => FracLess(progressLog[k - 1], progressLog[k])
                     /\ Len(progressLog) <= n =>
                           /\ scenesDone >= Len(progressLog) - 1
                           /\ pc # "failed" => Len(PlayedScenes) = Len(progressLog)
                     /\ Len(progressLog) = n + 1 =>
                           /\ progressLog[n + 1][1] = progressLog[n + 1][2]
                           /\ scenesDone = n
                     /\ artifact => Len(progressLog) = n + 1

C12_Witness ==
    /\ artifact
    /\ onProgress
    /\ Cardinality(Renderable) = 2
    /\ progressLog = << << 0, 2 >>, << 1, 2 >>, << 1, 1 >> >>

\* C13: the ambient bed is created exactly once in a render that reaches the
\* set-up, is started before any segment starts playing, is stopped exactly
\* once on a successful render and only after every played segment is Done,
\* and is never stopped while a segment is playing.
Calls(op) == { k \in DOMAIN resLog : resLog[k].op = op }

C13_BedLifecycle ==
    IF resLog = << >>
      THEN /\ segLog = << >> /\ bgm = "none"
           /\ pc \in {"start", "fonts", "failed"}
      ELSE LET created == Calls("bgm.create")
               started == Calls("bgm.start")
               stopped == Calls("bgm.stop")
           IN  /\ Cardinality(created) = 1
               /\ Cardinality(started) = 1
               /\ Cardinality(stopped) <= 1
               /\ \A c \in started :
                     /\ \A k \in created : k < c
                     /\ \A p \in DOMAIN segLog :
                           segLog[p].st = "running" => resLog[c].t <= segLog[p].start
               /\ stopped = {} => bgm = "started" /\ ~artifact
               /\ stopped # {} =>
                     /\ bgm = "stopped"
                     /\ \A p \in DOMAIN segLog : segLog[p].st = "done"
                     /\ pc \in {"awaitStop", "done"}

C13_Witness ==
    /\ artifact
    /\ Cardinality(Done) >= 2
    /\ Cardinality(Calls("bgm.stop")) = 1
    /\ \E p \in Done : segLog[p].kind = "outro"

\* C14: the ambient bed's gain starts at 0 and at most two ramps are ever
\* scheduled: one ramp up at the start and, exactly when an outro is played,
\* one ramp back to 0; a render without a played outro schedules exactly one
\* ramp.
Ramps == SelectSeq(gainEvents, LAMBDA e : e.op = "ramp")

OutroPlayed == \E p \in DOMAIN segLog : segLog[p].kind = "outro"

C14_AtMostTwoRamps ==
    IF gainEvents = << >>
      THEN segLog = << >> /\ gainValue = 0
      ELSE LET ramps == Ramps
           IN  /\ gainValue = 0
               /\ gainEvents[1].op = "set" /\ gainEvents[1].v = 0
               /\ resLog # << >> /\ gainEvents[1].t = resLog[1].t
               /\ Len(ramps) \in {1, 2}
               /\ ramps[1].v = BGM_LEVEL
               /\ ramps[1] = gainEvents[2]
               /\ Len(ramps) = 2 => ramps[2].v = 0
               /\ pc # "failed" => (Len(ramps) = 2 <=> OutroPlayed)

C14_Witness ==
    /\ artifact
    /\ OutroPlayed
    /\ Len(Ramps) = 2

C14_WitnessNoOutro ==
    /\ artifact
    /\ ~OutroPlayed
    /\ segLog # << >>
    /\ Len(Ramps) = 1

\* The value of the bed's gain at time t under the scheduled automation, as
\* a fraction << numerator, denominator >> of hundredths: the events are
\* taken in order of their time (then of their scheduling); a set holds its
\* value, and a ramp interpolates linearly from the value and time of the
\* event before it to its own.
EventBefore(a, b) ==
    \/ gainEvents[a].t < gainEvents[b].t
    \/ gainEvents[a].t = gainEvents[b].t /\ a < b

GainAt(t) ==
    LET past == { k \in DOMAIN gainEvents : gainEvents[k].t <= t }
        future == DOMAIN gainEvents \ past
    IN  IF past = {} THEN << gainValue, 1 >>
        ELSE LET p == CHOOSE k \in past : \A j \in past \ {k} : EventBefore(j, k)
             IN  IF future = {} THEN << gainEvents[p].v, 1 >>
                 ELSE LET n == CHOOSE k \in future :
                                   \A j \in future \ {k} : EventBefore(k, j)
                      IN  IF gainEvents[n].op = "ramp"
                            THEN << gainEvents[p].v * (gainEvents[n].t - t)
                                      + gainEvents[n].v * (t - gainEvents[p].t),
                                    gainEvents[n].t - gainEvents[p].t >>
                            ELSE << gainEvents[p].v, 1 >>

\* C15 (as claimed): when an outro is played, the scheduled gain of the
\* ambient bed is 0 at the instant the outro's voice ends, and so is 0 when
\* the bed is stopped after the outro.
C15_SilentAtOutroVoiceEnd ==
    (OutroPlayed /\ Calls("bgm.stop") # {}) =>
        /\ GainAt(voiceEnd)[1] = 0
        /\ \A c \in Calls("bgm.stop") : GainAt(resLog[c].t)[1] = 0

\* C16 (as claimed): when no outro is played, the scheduler ramps the gain
\* of the ambient bed down to 0 and holds until the ramp has finished before
\* it stops the bed, so the bed is never stopped with its gain above 0.
C16_FadeBeforeStopWithoutOutro ==
    (~OutroPlayed /\ segLog # << >>) =>
        \A c \in Calls("bgm.stop") :
            /\ \E k \in DOMAIN gainEvents :
                  /\ k > 2
                  /\ gainEvents[k].op = "ramp" /\ gainEvents[k].v = 0
                  /\ gainEvents[k].t <= resLog[c].t
            /\ GainAt(resLog[c].t)[1] = 0

\* C17: the intro segment is played if and only if the intro has both an
\* image source and an audio source; when either is missing no intro asset
\* is loaded, no intro frame is drawn, no intro audio is started, and the
\* render continues with the scenes.
IntroPlayed == \E p \in DOMAIN segLog : segLog[p].kind = "intro"

C17_IntroIffImageAndAudio ==
    /\ IntroPlayed => IntroGiven
    /\ ~IntroGiven =>
          /\ ~introImg /\ ~introAudioBuffer
          /\ pc \notin {"introImg", "introAud", "intro"}
          /\ artifact => Len(PlayedScenes) = Cardinality(Renderable)
    /\ (IntroGiven /\ pc \in {"sceneLoop", "scene", "outroDecide", "outro",
                              "finish", "awaitStop", "done"}) =>
          /\ segLog # << >>
          /\ segLog[1].kind = "intro" /\ segLog[1].st = "done"
    /\ artifact => (IntroPlayed <=> IntroGiven)

C17_Witness ==
    /\ artifact
    /\ intro.present /\ intro.imageUrl /\ ~intro.audioUrl
    /\ ~IntroPlayed
    /\ Len(PlayedScenes) >= 1

C17_WitnessPlayed ==
    /\ artifact
    /\ IntroGiven
    /\ IntroPlayed

\* C18: the image behind a played outro is the outro's own image when the
\* outro has one; otherwise the image of the last scene that was rendered;
\* otherwise, no scene having been rendered, the intro's image.
C18_OutroBackgroundPriority ==
    \A p \in DOMAIN segLog :
        segLog[p].kind = "outro" =>
            segLog[p].img =
                IF outro.imageUrl THEN << "outro", 0 >>
                ELSE IF PlayedScenes # << >>
                       THEN << "scene", PlayedScenes[Len(PlayedScenes)].idx >>
                ELSE << "intro", 0 >>

C18_Witness ==
    /\ artifact
    /\ ~outro.imageUrl
    /\ Cardinality(Renderable) = 1 /\ Len(scenes) = 2 /\ 1 \in Renderable
    /\ \E p \in Done : segLog[p].kind = "outro" /\ segLog[p].img = << "scene", 1 >>

C18_WitnessOwn ==
    \E p \in Done :
        /\ segLog[p].kind = "outro" /\ segLog[p].img = << "outro", 0 >>
        /\ PlayedScenes # << >>

C18_WitnessIntro ==
    \E p \in Done : segLog[p].kind = "outro" /\ segLog[p].img = << "intro", 0 >>

\* A body that starts with the magic number of a standard container ("RIFF").
HasMagic(b) == Len(b) >= 4 /\ SubSeq(b, 1, 4) = << 82, 73, 70, 70 >>

AudioSettled == aPc \in {"returned", "thrown"}

\* C19 (as claimed): when the standard decoder rejects bytes that carry a
\* container magic number, loadAudioUniversal fails with a decode error and
\* returns no sample buffer reinterpreted from the bytes.
C19_CorruptContainerIsFatal ==
    (AudioSettled /\ rejected /\ HasMagic(ab)) =>
        /\ aPc = "thrown"
        /\ result.kind = "DecodeError"
        /\ result.data = << >>

\* The raw PCM encoding of a sequence of signed 16-bit samples: two bytes
\* per sample, low byte first, two's complement.
Encode16(s) ==
    [k \in 1..(2 * Len(s)) |->
        LET u == (s[(k + 1) \div 2] + 65536) % 65536
        IN  IF k % 2 = 1 THEN u % 256 ELSE u \div 256]

\* the samples of the returned buffer multiplied back by 32768
ScaledBack ==
    [k \in DOMAIN result.data |-> (result.data[k][1] * 32768) \div result.data[k][2]]

PcmBufferOfBody ==
    /\ aPc = "returned"
    /\ result.kind = "pcm"
    /\ result.channels = 1
    /\ result.sampleRate = 24000
    /\ 2 * Len(result.data) = Len(ab)
    /\ \A k \in DOMAIN result.data :
          /\ result.data[k][2] = 32768
          /\ -result.data[k][2] <= result.data[k][1]
          /\ result.data[k][1] <= result.data[k][2]
          /\ ScaledBack[k] \in -32768..32767
    /\ Encode16(ScaledBack) = ab

\* C20 (as claimed): for headerless bytes that the decoder rejects and that
\* encode a sequence s of signed 16-bit little-endian samples,
\* loadAudioUniversal returns a mono buffer at 24000 Hz with len(s) samples,
\* the i-th being s[i]/32768; each lies in [-1,1] and multiplying back by
\* 32768 reproduces s.
C20_PcmRoundTrip ==
    (AudioSettled /\ rejected /\ ~HasMagic(ab) /\ Len(ab) % 2 = 0) =>
        PcmBufferOfBody

\* C20 (amended): the same for a sequence s of at least one sample; for the
\* empty body the call throws instead of returning an empty buffer.
C20_PcmRoundTripNonEmpty ==
    /\ (AudioSettled /\ rejected /\ ~HasMagic(ab) /\ Len(ab) % 2 = 0 /\ Len(ab) >= 2) =>
          PcmBufferOfBody
    /\ (AudioSettled /\ rejected /\ ab = << >>) =>
          aPc = "thrown" /\ result.kind = "NotSupportedError"

C20_Witness ==
    /\ aPc = "returned"
    /\ rejected
    /\ ab = << 0, 128, 255, 127 >>
    /\ result.data = << << -32768, 32768 >>, << 32767, 32768 >> >>

\* What a composed frame shows.  An operation is visible when it is not fully
\* transparent and its rectangle meets the canvas on a positive area; it
\* covers the canvas when it is opaque and its rectangle contains the canvas.
Visible(op) ==
    /\ op.a > 0
    /\ op.x0 < op.x1 /\ op.x1 > 0 /\ op.x0 < Den(sDuration)
    /\ op.y0 < op.y1 /\ op.y1 > 0 /\ op.y0 < Den(sDuration)

Covers(op) ==
    /\ op.a = 12
    /\ op.x0 <= 0 /\ op.x1 >= Den(sDuration)
    /\ op.y0 <= 0 /\ op.y1 >= Den(sDuration)

\* the frame shows src on the whole canvas and nothing drawn after it
ShowsOnly(src) ==
    \E k \in DOMAIN frame :
        /\ frame[k].src = src
        /\ Covers(frame[k])
        /\ \A j \in (k + 1)..Len(frame) : ~Visible(frame[j])

SceneFrameAt(e) == sKind = "scene" /\ canvas.by = "scene" /\ canvas.at = e

\* C21 (as claimed): for every transition kind the frame composed at
\* transition progress 0 shows the outgoing frame on the whole surface and
\* no pixel of the incoming image.
C21_OutgoingAtProgress0 ==
    SceneFrameAt(0) => ShowsOnly("snapshot")

\* C22: for every transition kind, a frame composed once the transition
\* progress is 1 (elapsed >= TRANS_DURATION) shows the incoming image on the
\* whole surface and nothing of the outgoing frame.
C22_IncomingAtProgress1 ==
    (sKind = "scene" /\ canvas.by = "scene" /\ canvas.at >= 12) =>
        /\ ShowsOnly("image")
        /\ \A k \in DOMAIN frame : frame[k].src # "snapshot"

C22_Witness ==
    /\ sKind = "scene"
    /\ transition = "slideLeft"
    /\ canvas = [by |-> "scene", at |-> 12]
    /\ ShowsOnly("image")

\* the part of line n's width that the highlight clip spans, times its
\* denominator
ClipWidth(n) == subs[n].width * subs[n].clip[1]

EmptyText == text = << [len |-> 0, width |-> 0] >>

\* C23: drawSubtitles called on a non-empty text with progress 1.0 or more
\* highlights every wrapped line over its full width.
C23_FullHighlightAtProgress1 ==
    (subs # << >> /\ progress >= 4 /\ ~EmptyText) =>
        \A n \in DOMAIN subs :
            /\ subs[n].base > 0 => subs[n].highlight
            /\ ClipWidth(n) = subs[n].width * subs[n].clip[2]

C23_Witness ==
    /\ progress = 5
    /\ Len(subs) = 2
    /\ \A n \in DOMAIN subs :
          subs[n].highlight /\ subs[n].width > 0 /\ subs[n].clip = << 1, 1 >>

\* C24 (as claimed): no line produced by the word wrap is wider than the
\* maximum width (surface width minus 100), even when a single word is
\* wider than that maximum.
C24_LinesWithinMaxWidth ==
    \A n \in DOMAIN subs : subs[n].width <= 720 - 100

\* C25: drawSubtitles called with the empty text draws no glyph of the base
\* layer and never enters the highlight branch, at any progress.
C25_EmptyTextDrawsNothing ==
    (subs # << >> /\ EmptyText) =>
        \A n \in DOMAIN subs :
            /\ subs[n].base = 0
            /\ subs[n].width = 0
            /\ ~subs[n].highlight
            /\ ClipWidth(n) = 0

C25_Witness ==
    /\ EmptyText
    /\ progress = 5
    /\ Len(subs) = 1
    /\ ~subs[1].highlight

\* C30: the highlight sweeps in reading order: a line has a non-empty
\* highlight only if the line before it is fully highlighted; every line's
\* highlighted fraction lies in [0,1], is 0 at progress 0, and does not
\* decrease when drawSubtitles is called again with a progress at least as
\* large.
C30_SweepInvariant ==
    \A n \in DOMAIN subs :
        /\ subs[n].clip[2] > 0
        /\ 0 <= subs[n].clip[1] /\ subs[n].clip[1] <= subs[n].clip[2]
        /\ ~subs[n].highlight => subs[n].clip[1] = 0
        /\ progress = 0 => ~subs[n].highlight
        /\ (n > 1 /\ subs[n].highlight) =>
              /\ subs[n - 1].highlight
              /\ subs[n - 1].clip[1] = subs[n - 1].clip[2]

C30_SweepStep ==
    (subs # << >> /\ progress' >= progress) =>
        /\ DOMAIN subs' = DOMAIN subs
        /\ \A n \in DOMAIN subs :
              subs'[n].clip[1] * subs[n].clip[2] >= subs[n].clip[1] * subs'[n].clip[2]

C30_HighlightSweepsInOrder ==
    [](C30_SweepInvariant) /\ [][C30_SweepStep]_vars

C30_Witness ==
    /\ Len(subs) = 2
    /\ subs[1].highlight /\ subs[1].clip = << 1, 1 >>
    /\ subs[2].highlight /\ subs[2].clip[1] > 0 /\ subs[2].clip[1] < subs[2].clip[2]

\* The state of a segment as the specification names it, read off the
\* player: Idle before the call, Done once resolved, and in between Playing
\* while elapsed < audio duration and Settling afterwards.
Phase ==
    IF sPc = "idle" THEN 0
    ELSE IF sPc = "resolved" THEN 3
    ELSE IF sClock < sAudioDur THEN 1
    ELSE 2

Pad == IF sKind = "outro" THEN 15 ELSE 8

C26_PhaseInvariant ==
    /\ sPc = "drawing" => sClock < sAudioDur + Pad /\ canvas = [by |-> sKind, at |-> sClock]
    /\ sPc = "resolved" => sClock >= sAudioDur + Pad /\ canvas.at < sAudioDur + Pad
    /\ sStarts = IF sPc = "idle" THEN 0 ELSE 1
    /\ sResolves = IF sPc = "resolved" THEN 1 ELSE 0

C26_PhaseStep ==
    /\ Phase' \in {Phase, Phase + 1}
    /\ Phase = 3 => UNCHANGED segVars
    /\ Phase # 0 => sStarts' = sStarts

EventBeforeLast(k) ==
    CHOOSE j \in DOMAIN gainEvents :
        /\ EventBefore(j, k)
        /\ \A m \in DOMAIN gainEvents :
              EventBefore(m, k) => (m = j \/ EventBefore(m, j))

\* C27 (as claimed): after t=0 the gain of the ambient bed never changes by
\* an instantaneous step: every set-value event scheduled after t=0 sets the
\* gain to the value it has at that time, which is the value of the event
\* before it, held up to the set.
C27_NoGainStep ==
    \A k \in DOMAIN gainEvents :
        (k > 1 /\ gainEvents[k].op = "set") =>
            gainEvents[EventBeforeLast(k)].v = gainEvents[k].v

\* the last frame drawn is one of this scene with the transition over
TransitionCompleted ==
    /\ canvas.by = "scene"
    /\ canvas.at >= TRANS_DURATION
    /\ ShowsOnly("image")

\* C28 (as claimed): in every scene segment the transition has completed
\* (progress 1, the incoming image fully shown) by the time the narration
\* has begun, and in any case when the segment is Done, for every narration
\* duration.
C28_TransitionBeforeNarration ==
    sKind = "scene" =>
        /\ sStarts >= 1 => TransitionCompleted
        /\ sPc = "resolved" => TransitionCompleted

C29_DecodeInvariant ==
    /\ aPc = "decoding" => copy = ab /\ ~rejected
    /\ aPc = "fallback" => rejected
    /\ result.kind \in {"pcm", "RangeError", "NotSupportedError"} => rejected
    /\ result.kind = "decoded" => ~rejected

C29_DecodeStep ==
    /\ aPc # "fetch" => ab' = ab
    /\ aPc = "fetched" => aPc' \in {"fetched", "decoding"}
    /\ (aPc' = "fallback" /\ aPc # "fallback") => aPc = "decoding"
    /\ (result'.kind = "pcm" /\ result.kind # "pcm") =>
          /\ aPc = "fallback"
          /\ result'.data = [k \in 1..(Len(ab) \div 2) |->
                                << int16(ab[2 * k - 1], ab[2 * k]), PCM_SCALE >>]

\* C29: loadAudioUniversal tries the standard decoder first, on a copy of
\* the fetched bytes; whatever the decoder does to that copy, the fetched
\* bytes stay as they were and are the bytes the PCM fallback reads, and the
\* fallback is entered only after the decoder has rejected.
C29_DecoderGetsCopy ==
    [](C29_DecodeInvariant) /\ [][C29_DecodeStep]_vars

C29_Witness ==
    /\ aPc = "returned"
    /\ result.kind = "pcm"
    /\ rejected
    /\ copy = << >>
    /\ Len(ab) >= 2

\* C31 (as claimed): the title of the intro is laid out on at most two
\* lines, for every title and every assignment of widths to its words.
C31_TitleOnTwoLines ==
    Len(titleLines) <= 2

\* C32 (as claimed): for an outro object without an audio source no load of
\* outro audio is attempted, no outro buffer exists and no outro segment is
\* started.
C32_OutroWithoutAudioSkipped ==
    (outro.present /\ ~outro.audioUrl) =>
        /\ pc # "outroAud"
        /\ ~outroBuffer
        /\ \A p \in DOMAIN segLog : segLog[p].kind # "outro"

\* C33 (as claimed): the intro segment plays for the longer of 3 s and the
\* length of its audio: it is resolved by the first frame callback whose
\* elapsed time has reached that duration, and by none before.
C33_IntroPlaysMinimum ==
    LET longer == IF sAudioDur > 30 THEN sAudioDur ELSE 30
    IN  sKind = "intro" =>
          /\ sPc = "resolved" => sClock >= longer
          /\ sPc = "drawing" => sClock < longer

\* C34 (as claimed): in every frame of a scene segment, whatever the
\* transition, the incoming image is drawn at the size of the living-image
\* zoom, 1.02 + 0.08 * elapsed / totalDur times the canvas.
C34_LivingZoomEveryFrame ==
    (sKind = "scene" /\ sPc # "idle") =>
        \A k \in DOMAIN frame :
            frame[k].src = "image" =>
                frame[k].y1 - frame[k].y0 = sw(canvas.at, sDuration)

Locals == {"canvas", "audioContext", "recorder", "chunks", "bgmNodes"}

\* C35: two interleaved invocations share no render surface, audio context,
\* recorder, chunk list or ambient bed, and every call one invocation makes
\* (draw, audio start, gain schedule, teardown) is made on an object that
\* the same invocation created.
C35_InvocationsShareNothing ==
    inv # << >> =>
        /\ \A o \in ops : o.on \in DOMAIN heap /\ heap[o.on].by = o.by
        /\ \A k \in 1..2 : \A f \in Locals :
              inv[k][f] # 0 => heap[inv[k][f]].by = k
        /\ \A f \in Locals, g \in Locals :
              inv[1][f] # 0 => inv[1][f] # inv[2][g]

\* both invocations are drawing at the same time
C35_Witness ==
    /\ inv # << >>
    /\ inv[1].pc = "playing" /\ inv[2].pc = "playing"
    /\ \A k \in 1..2 : did(k, "drawImage", inv[k].canvas) \in ops
    /\ did(2, "chunks.push", inv[2].chunks) \in ops

C36_SpokenInvariant ==
    (sKind = "scene" /\ sPc # "idle") =>
        /\ 0 <= spoken[1]
        /\ spoken[1] <= spoken[2]
        /\ canvas.at >= sAudioDur => spoken[1] = spoken[2]

C36_SpokenStep ==
    (sKind = "scene" /\ sPc # "idle") =>
        spoken[1] * spoken'[2] <= spoken'[1] * spoken[2]

\* C36: within a scene segment the progress handed to the subtitle renderer
\* never decreases from one frame to the next, never exceeds 1, and is 1 in
\* every frame drawn at an elapsed time of the audio duration or more.
C36_SpokenProgressMonotone ==
    [](C36_SpokenInvariant) /\ [][C36_SpokenStep]_vars

\* a frame of the hold window: the audio is over, elapsed / audioDur is
\* above 1 and the progress handed over is still computed by line 210
C36_Witness ==
    /\ sKind = "scene"
    /\ sPc = "drawing"
    /\ sAudioDur >= 2
    /\ canvas.at = sAudioDur + 1
    /\ spoken = << sAudioDur, sAudioDur >>

\* C38 (as claimed): once the render has failed and its audio context is
\* closed, no load that was in flight calls decodeAudioData or createBuffer
\* on that context.
C38_NoUseAfterClose ==
    ~closedCtxUse

\* the blobs the chunk list must hold: the data of every event that was
\* not empty, in the order of delivery
NonEmptyDelivered == SelectSeq(delivered, LAMBDA size : size > 0)

\* C39: on every path that has entered the loading and playback phase the
\* recorder is stopped once and the audio context closed once, never twice;
\* on the success path both come after the last segment is Done and after
\* the ambient bed was stopped; the artifact is made only after the
\* recorder's stop event, of every non-empty chunk delivered, in order.
C39_StopAndCloseOnce ==
    LET stops == Calls("recorder.stop")
        closes == Calls("audioContext.close")
        bedStops == Calls("bgm.stop")
    IN  /\ Cardinality(stops) <= 1
        /\ Cardinality(closes) <= 1
        /\ (resLog # << >> /\ pc \in {"awaitStop", "done", "failed"}) =>
              Cardinality(stops) = 1 /\ Cardinality(closes) = 1
        /\ stops # {} => recorder = "stopped"
        /\ closes # {} => audioContext = "closed"
        /\ pc \in {"awaitStop", "done"} =>
              /\ Running = {}
              /\ \E b \in bedStops : \A k \in stops \cup closes : b < k
        /\ (recorder = "stopped" /\ pc # "failed") => pc \in {"awaitStop", "done"}
        /\ chunks = NonEmptyDelivered
        /\ artifact => recorder = "stopped" /\ delivered # << >>

C39_Witness ==
    /\ pc = "done"
    /\ artifact
    /\ chunks = << 1 >>
    /\ Len(segLog) >= 2

C40_SnapshotInvariant ==
    (sKind = "scene" /\ sPc \in {"drawing", "resolved"}) =>
        /\ snapshot.by \in {"nobody", "previous"}
        /\ canvas.by = "scene"

C40_SnapshotStep ==
    /\ (sKind = "scene" /\ sPc = "idle" /\ sPc' # "idle") => snapshot' = canvas
    /\ sPc \in {"drawing", "resolved"} => snapshot' = snapshot

\* C40: the outgoing frame of a scene's transition is captured once, when
\* the scene player is entered and before it draws: it is the frame then on
\* the surface (the last frame of the segment before, or the blank surface
\* for a first segment), and no later draw changes it.
C40_SnapshotAtEntry ==
    [](C40_SnapshotInvariant) /\ [][C40_SnapshotStep]_vars

C40_Witness ==
    /\ sKind = "scene"
    /\ sPc = "drawing"
    /\ canvas = [by |-> "scene", at |-> 3]
    /\ snapshot = [by |-> "previous", at |-> 0]

Next ==
    \/ CheckTimeline
    \/ SetupResources
    \/ SetupThrows
    \/ LoadWait
    \/ \E k \in DOMAIN sceneLoad :
         \/ SceneImageLoaded(k)
         \/ SceneImageError(k)
         \/ SceneAudioLoaded(k)
         \/ SceneAudioError(k)
    \/ ScenesLoaded
    \/ IntroImageLoaded
    \/ IntroAudioLoaded
    \/ OutroAudioLoaded
    \/ OutroImageLoaded
    \/ LoadError
    \/ PlayIntro
    \/ drawIntro
    \/ SceneLoop
    \/ drawScene
    \/ PlayOutro
    \/ drawOutro
    \/ PlayerThrows
    \/ Finish
    \/ DataAvailable
    \/ RecorderOnStop

Spec == Init /\ [][Next]_vars

\* The event loop runs a task whenever one is pending: a load settles, an
\* animation frame fires, the recorder's stop event is delivered.
SpecFair == Spec /\ WF_vars(Next)

Settled == pc \in {"done", "failed"}

\* The direct statement of C37, a liveness formula: TLC decides it on the
\* state graph of SpecFair by its search for a fair cycle.
EverythingSettles ==
    /\ <>[]Settled
    /\ \A p \in 1..(MaxScenes + 2) : (p \in Running) ~> (p \in Done)
    /\ (pc = "awaitStop") ~> (pc = "done" /\ artifact)

\* The same by a variant: a number that every step of the invocation makes
\* smaller.  The steps left on the control path weigh most, then the loads
\* in flight, the pending dataavailable event and the time left.
Horizon == MaxLoadTime + (MaxScenes + 2) * (MaxDur + OUTRO_EXTRA + MaxFrameStep)

StepsLeft ==
    LET top == 5 + 2 * MaxScenes
    IN  CASE pc = "start" -> top + 9
          [] pc = "fonts" -> top + 8
          [] pc = "loadScenes" -> top + 7
          [] pc = "introImg" -> top + 6
          [] pc = "introAud" -> top + 5
          [] pc = "outroAud" -> top + 4
          [] pc = "outroImg" -> top + 3
          [] pc = "playIntro" -> top + 2
          [] pc = "intro" -> top + 1
          [] pc = "sceneLoop" -> 5 + 2 * (Len(sceneLoad) - i)
          [] pc = "scene" -> 4 + 2 * (Len(sceneLoad) - i)
          [] pc = "outroDecide" -> 4
          [] pc = "outro" -> 3
          [] pc = "finish" -> 2
          [] pc = "awaitStop" -> 1
          [] OTHER -> 0

RECURSIVE LoadsLeft(_)
LoadsLeft(k) ==
    IF k = 0 THEN 0
    ELSE LoadsLeft(k - 1) + (IF sceneLoad[k] = "img" THEN 2
                             ELSE IF sceneLoad[k] = "aud" THEN 1 ELSE 0)

Variant ==
    StepsLeft * (Horizon + 2 * MaxScenes + 2)
      + LoadsLeft(Len(sceneLoad))
      + (IF recorder = "stopped" /\ delivered = << >> THEN 1 ELSE 0)
      + (Horizon - now)

C37_SettleInvariant ==
    /\ Variant >= 0
    /\ now <= Horizon
    /\ Settled \/ ENABLED Next
    /\ pc = "done" => artifact
    /\ Running # {} => pc \in {"intro", "scene", "outro"} /\ Cardinality(Running) = 1
    /\ pc \in {"intro", "scene", "outro"} => Running # {}

C37_SettleStep ==
    /\ Variant' < Variant
    /\ \A p \in Done : p \in Done'
    /\ \A p \in Running : p \in Running' \/ p \in Done'

\* C37: when loads settle and frame callbacks keep firing, every started
\* segment reaches Done, every invocation settles (an artifact or an error),
\* and once the success path has stopped the recorder the returned promise
\* is resolved with the artifact.  Every step makes the variant smaller, the
\* variant is never negative, a step is possible in every state that is not
\* settled, and a running segment is awaited: under the fairness of
\* SpecFair the invocation therefore settles, with every segment Done.
C37_EverythingSettles ==
    [](C37_SettleInvariant) /\ [][C37_SettleStep]_vars

C37_Witness ==
    /\ pc = "done"
    /\ artifact
    /\ Len(segLog) >= 2
    /\ Done = DOMAIN segLog
====
